---- MODULE Spec2Model ----
(***************************************************************************)
(* Cover-generation services of crypto-news-curator-backend.               *)
(*                                                                         *)
(* Each service variant (one Python file under hf-spaces-deployment) is a  *)
(* process with a module-level generator object built at import time and a *)
(* POST /generate handler.  The diffusion pipeline, PIL and the file       *)
(* system are the environment: whether a library call raises is an input   *)
(* of the request (env), drawn from a small set.                           *)
(* The Gradio app, the command-line client of the Space and the two        *)
(* classes used in-process (TrainedLoRAIntegration, BoxedSubtitleGenerator)*)
(* are variants of the same shape: a call is dispatched and returns.       *)
(*                                                                         *)
(* Text is modelled as a sequence of tokens, so that concatenation and     *)
(* "contains" are computed; None is the empty sequence and an optional     *)
(* record r is <<r>>.                                                      *)
(* In a title the white space between words is a token of its own, so that *)
(* upper, strip, split and join are computed as the overlay code does.     *)
(***************************************************************************)
EXTENDS Integers, Sequences, FiniteSets, TLC

VARIABLES
    variant,        \* which service file this process runs
    generator,      \* the module-level generator object (and the pipeline's adapters)
    startup,        \* the generator as constructed at import time
    style_outputs,  \* app_fixed.py: /app/style_outputs, client -> who wrote the file
    inflight,       \* requests whose handler has been entered and has not returned
    last            \* the response returned last, with what the request executed

vars == <<variant, generator, startup, style_outputs, inflight, last>>

----------------------------------------------------------------------------
(* Bounds of the model. *)

\* How many adapters the model lets accumulate in a pipeline before it stops
\* accepting requests that would add another one.
MaxAdapters == 3

\* How many calls the model lets be in progress at once where nothing in the
\* code serialises them.
MaxInFlight == 2

----------------------------------------------------------------------------
(* Values *)

None == <<>>
Some(x) == <<x>>
IsNone(o) == Len(o) = 0
The(o) == o[1]

Range(s) == {s[i] : i \in 1..Len(s)}

\* substring test on token sequences: every token of part occurs in whole
Contains(whole, part) == Range(part) \subseteq Range(whole)

\* white space inside a text, one token whatever its length
Blank == " "

\* str.upper() of one token
UpperToken(tok) ==
    CASE tok = "bitcoin" -> "BITCOIN"
      [] tok = "etf" -> "ETF"
      [] tok = "hits" -> "HITS"
      [] tok = "new" -> "NEW"
      [] tok = "high" -> "HIGH"
      [] OTHER -> tok

\* text.upper()
upper(text) == [i \in 1..Len(text) |-> UpperToken(text[i])]

\* text.split(): the words, in order, without the white space
split(text) == SelectSeq(text, LAMBDA tok : tok # Blank)

\* text.lstrip()
RECURSIVE lstrip(_)
lstrip(text) ==
    IF text # <<>> /\ Head(text) = Blank THEN lstrip(Tail(text)) ELSE text

Reverse(s) == [i \in 1..Len(s) |-> s[Len(s) + 1 - i]]

\* text.strip()
strip(text) == Reverse(lstrip(Reverse(lstrip(text))))

\* " ".join(words)
RECURSIVE join(_)
join(words) ==
    IF Len(words) <= 1 THEN words
    ELSE <<Head(words), Blank>> \o join(Tail(words))

Variants ==
    { "fresh", "fresh_fixed", "minimal", "fixed", "sd15", "lora",
      "enhanced", "cpu", "lora_only", "gradio", "client", "trained", "boxed" }

Clients == {"hedera", "algorand"}
Styles == {"dark_theme", "energy_fields"}
Titles == {<<>>, <<"BITCOIN">>}

\* titles of three, four and five words, the first with white space in front
LongTitles ==
    { <<Blank, "bitcoin", Blank, "hits", Blank, "high">>,
      <<"bitcoin", Blank, "hits", Blank, "new", Blank, "high">>,
      <<"bitcoin", Blank, "etf", Blank, "hits", Blank, "new", Blank, "high">> }
Subtitles == {<<>>, <<"CRYPTO", "NEWS">>}

\* GenerationRequest
Requests ==
    [title : Titles, subtitle : Subtitles, client : Clients, style : Styles,
     use_trained_lora : BOOLEAN]

\* The text overlay is laid out from the title and the subtitle alone: the
\* longer titles are requested for one client and one style.
TitleRequests ==
    [title : LongTitles, subtitle : Subtitles, client : {"hedera"},
     style : {"energy_fields"}, use_trained_lora : {TRUE}]

\* What the libraries do during one request; here every call returns.
DefaultEnv ==
    [loadOk |-> TRUE,       \* pipeline.load_lora_weights(path) returns
     altLoadOk |-> TRUE,    \* load_lora_weights(dir, weight_name=...) returns
     pipeOk |-> TRUE,       \* pipeline(prompt, ...) returns
     encodeOk |-> TRUE,     \* image.save(buffer, "PNG") returns
     drawOk |-> TRUE,       \* the PIL drawing calls of a procedural generator return
     proc |-> "exit0",      \* subprocess.run: "exit0", "exit1" or "timeout"
     pipeLoadOk |-> TRUE,   \* StableDiffusionPipeline.from_pretrained returns
     connect1Ok |-> TRUE,   \* Client(space_urls[0]) returns
     connect2Ok |-> TRUE,   \* Client(space_urls[1]) returns
     predict |-> "returns", \* client.predict: "returns", "malformed", "raises"
     space |-> "titles"]    \* the app the Space runs: "titles" or "prompt"

\* exception messages of the libraries
MsgLoad == <<"lora_load_error">>
MsgAltLoad == <<"lora_alt_load_error">>
MsgPipe == <<"pipeline_error">>
MsgEncode == <<"png_encode_error">>
MsgTitleLines == <<"UnboundLocalError", "title_lines">>
MsgDraw == <<"pil_draw_error">>
MsgStderr == <<"generator_stderr">>
MsgPipeLoad == <<"from_pretrained_error">>
MsgPredict == <<"predict_error">>
EmptyDict == [k \in {} |-> <<>>]

----------------------------------------------------------------------------
(* File names *)

LoraDir == <<"models/lora">>
UniversalFile == <<"crypto_cover_styles_lora.safetensors">>
UniversalPath == LoraDir \o <<"/">> \o UniversalFile
UniversalKey == <<"universal">>

\* f"{client}_{style}"
LoraKey(client, style) == <<client, "_", style>>

\* f"{lora_dir}/{client}_{style}_lora.safetensors"
LoraPath(client, style) ==
    LoraDir \o <<"/">> \o <<client, "_", style>> \o <<"_lora.safetensors">>

\* app_lora.py: f"models/lora/{client}_lora.safetensors"
ClientLoraPath(client) == LoraDir \o <<"/">> \o <<client>> \o <<"_lora.safetensors">>

----------------------------------------------------------------------------
(* Images and responses *)

\* Image.new / pipeline(...).images[0]: a picture, who drew its background,
\* which adapters the pipeline held when it did, and the layers composited.
NewImage(w, h, by, adapters) ==
    [width |-> w, height |-> h, background |-> by, adapters |-> adapters,
     layers |-> <<"background">>, text |-> None]

\* image.resize((w, h), LANCZOS)
Resize(img, w, h) == [img EXCEPT !.width = w, !.height = h]

\* Image.alpha_composite(base, layer): layer must have the size of base
Composite(img, layer) == [img EXCEPT !.layers = Append(@, layer)]

\* what a text overlay holds: the title lines with the y each is drawn at,
\* and the subtitle with its box, if one is drawn
TextOverlay(height, title_lines, title_ys, subtitle) ==
    [height |-> height, title_lines |-> title_lines, title_ys |-> title_ys,
     subtitle |-> subtitle]

\* draw.rounded_rectangle([.., box_y1, .., box_y2]) and draw.text((x, subtitle_y))
SubtitleBox(subtitle, subtitle_y, box_y1, box_y2) ==
    [text |-> subtitle, subtitle_y |-> subtitle_y, box_y1 |-> box_y1,
     box_y2 |-> box_y2]

\* the picture with the content of its text layer
WithText(img, overlay) == [img EXCEPT !.text = Some(overlay)]

\* base64.b64encode(PNG bytes of img).decode()
B64Png(img) == [encoding |-> "base64", format |-> "PNG", image |-> img]

\* f"data:image/png;base64,{base64_image}"
DataUri(img) == [prefix |-> <<"data:image/png;base64,">>, payload |-> B64Png(img)]

\* str(e) of an HTTPException: "<status>: <detail>"
StrHttpException(status, detail) == <<status, ": ">> \o detail

\* raise HTTPException(status_code=500, detail=...)
Http500(detail) == [status |-> 500, detail |-> detail]

\* return GenerationResponse(...) / a dict: HTTP 200 with the JSON body
Http200(body) == [status |-> 200, json |-> body]

GenerationResponse(success, image_url, error, metadata) ==
    [success |-> success, image_url |-> image_url, error |-> error,
     metadata |-> metadata]

\* What one request executed (observed by the properties; not program state).
NoTrace ==
    [loads |-> <<>>,         \* LoRA load attempts: [path, ok]
     pipeline |-> <<>>,      \* pipeline calls: [adapters, ok]
     programmatic |-> 0,     \* calls of the programmatic generator
     raised |-> <<>>,        \* messages of the exceptions raised, in order
     connects |-> <<>>,      \* client: connection attempts: [url, ok]
     space |-> <<>>,         \* client: results of the Space's function: [cover]
     cause |-> <<>>]         \* the exception that made the generation fail

----------------------------------------------------------------------------
(* Steps shared by the class-based services (the same code in each file) *)

\* The generator object; a service that lacks an attribute keeps its default.
\*   adapters: the LoRA weights the pipeline object holds, oldest first
\*   files:    the LoRA files present under models/lora
Generator(files, watermark, pipeline, lora_available) ==
    [files |-> files, watermark |-> watermark, pipeline |-> pipeline,
     lora_available |-> lora_available, current_lora |-> None,
     adapters |-> <<>>]

\* pipeline.unload_lora_weights()
unload_lora_weights(g) == [g EXCEPT !.adapters = <<>>]

\* pipeline.load_lora_weights(path) that returned
load_lora_weights_ok(g, path) == [g EXCEPT !.adapters = Append(@, path)]

Log(t, field, entry) == [t EXCEPT ![field] = Append(@, entry)]

\* create_text_overlay: title_lines is bound only inside "if title:", and
\* read inside "if subtitle:".
create_text_overlay_raises(title, subtitle) == title = <<>> /\ subtitle # <<>>

\* generate_cover with the two alpha_composite steps exchanged: the watermark
\* goes onto the background and the text overlay on top of it
compose_cover_watermark_first(g, background, title, subtitle) ==
    IF create_text_overlay_raises(title, subtitle)
    THEN [ok |-> FALSE, msg |-> MsgTitleLines]
    ELSE LET base_rgba == IF g.watermark
                          THEN Composite(background, "watermark")
                          ELSE background
         IN [ok |-> TRUE, image |-> Composite(base_rgba, "text")]

\* generate_cover, from the background on: text overlay, watermark, convert.
\* [ok, image] or [ok = FALSE, msg]
compose_cover(g, background, title, subtitle) ==
    IF create_text_overlay_raises(title, subtitle)
    THEN [ok |-> FALSE, msg |-> MsgTitleLines]
    ELSE LET base_rgba == Composite(background, "text")
             final_image == IF g.watermark
                            THEN Composite(base_rgba, "watermark")
                            ELSE base_rgba
         IN [ok |-> TRUE, image |-> final_image]

----------------------------------------------------------------------------
(* FRESH_SDXL_20251014_1514/app.py: SDXLLoRACoverGenerator *)

FreshClients == {"hedera", "algorand", "constellation"}
FreshStyles == {"energy_fields", "dark_theme", "network_nodes", "particle_waves"}

\* check_available_loras: the dict key -> path of the files found
fresh_check_available_loras(files) ==
    LET specific == { <<c, s>> \in FreshClients \X FreshStyles :
                        LoraPath(c, s) \in files }
        keys == { LoraKey(cs[1], cs[2]) : cs \in specific }
                  \cup (IF UniversalPath \in files THEN {UniversalKey} ELSE {})
    IN [k \in keys |-> IF k = UniversalKey THEN UniversalPath
                       ELSE LoraDir \o <<"/">> \o k \o <<"_lora.safetensors">>]

\* __init__: load_pipeline raises and is caught -> pipeline = None
fresh_init(files, watermark, pipelineLoads) ==
    Generator(files, watermark, pipelineLoads, fresh_check_available_loras(files))

\* load_lora_weights with the load wrapped in a retry: a failed load is
\* attempted once more before giving up
fresh_load_lora_weights_retrying(g, client, style, env, t) ==
    IF ~g.pipeline THEN [g |-> g, ret |-> FALSE, t |-> t]
    ELSE
    LET specific == LoraKey(client, style) \in DOMAIN g.lora_available
        universal == UniversalKey \in DOMAIN g.lora_available
        lora_key == IF specific THEN LoraKey(client, style) ELSE UniversalKey
    IN  IF ~specific /\ ~universal THEN [g |-> g, ret |-> FALSE, t |-> t]
        ELSE
        LET lora_path == g.lora_available[lora_key]
            g1 == IF g.current_lora # None THEN unload_lora_weights(g) ELSE g
        IN  IF env.loadOk
            THEN [g |-> [load_lora_weights_ok(g1, lora_path)
                            EXCEPT !.current_lora = lora_key],
                  ret |-> TRUE,
                  t |-> Log(t, "loads", [path |-> lora_path, ok |-> TRUE])]
            ELSE [g |-> g1, ret |-> FALSE,
                  t |-> Log(Log(Log(t, "loads", [path |-> lora_path, ok |-> FALSE]),
                                "loads", [path |-> lora_path, ok |-> FALSE]),
                            "raised", MsgLoad)]

\* load_lora_weights with the two lookups exchanged: the universal LoRA is
\* taken whenever it is registered, the specific one only without it
fresh_load_lora_weights_universal_first(g, client, style, env, t) ==
    IF ~g.pipeline THEN [g |-> g, ret |-> FALSE, t |-> t]
    ELSE
    LET specific == LoraKey(client, style) \in DOMAIN g.lora_available
        universal == UniversalKey \in DOMAIN g.lora_available
        lora_key == IF universal THEN UniversalKey ELSE LoraKey(client, style)
    IN  IF ~specific /\ ~universal THEN [g |-> g, ret |-> FALSE, t |-> t]
        ELSE
        LET lora_path == g.lora_available[lora_key]
            g1 == IF g.current_lora # None THEN unload_lora_weights(g) ELSE g
        IN  IF env.loadOk
            THEN [g |-> [load_lora_weights_ok(g1, lora_path)
                            EXCEPT !.current_lora = lora_key],
                  ret |-> TRUE,
                  t |-> Log(t, "loads", [path |-> lora_path, ok |-> TRUE])]
            ELSE [g |-> g1, ret |-> FALSE,
                  t |-> Log(Log(t, "loads", [path |-> lora_path, ok |-> FALSE]),
                            "raised", MsgLoad)]

\* load_lora_weights(client, style) -> [g, ret, t]
fresh_load_lora_weights(g, client, style, env, t) ==
    IF ~g.pipeline THEN [g |-> g, ret |-> FALSE, t |-> t]
    ELSE
    LET specific == LoraKey(client, style) \in DOMAIN g.lora_available
        universal == UniversalKey \in DOMAIN g.lora_available
        lora_key == IF specific THEN LoraKey(client, style) ELSE UniversalKey
    IN  IF ~specific /\ ~universal THEN [g |-> g, ret |-> FALSE, t |-> t]
        ELSE
        LET lora_path == g.lora_available[lora_key]
            g1 == IF g.current_lora # None THEN unload_lora_weights(g) ELSE g
        IN  IF env.loadOk
            THEN [g |-> [load_lora_weights_ok(g1, lora_path)
                            EXCEPT !.current_lora = lora_key],
                  ret |-> TRUE,
                  t |-> Log(t, "loads", [path |-> lora_path, ok |-> TRUE])]
            ELSE [g |-> g1, ret |-> FALSE,
                  t |-> Log(Log(t, "loads", [path |-> lora_path, ok |-> FALSE]),
                            "raised", MsgLoad)]

\* app_FIXED_LORA_LOADING.py load_lora_weights, the except branch: when the
\* load raised and the universal file exists, a second load from the directory
\* with weight_name
fixed_alternative_load(first, g, client, style, env, t) ==
    LET attempted == Len(first.t.loads) > Len(t.loads)
    IN  IF first.ret \/ ~attempted THEN first
        ELSE IF UniversalPath \notin first.g.files THEN first
        ELSE
        LET specific == LoraKey(client, style) \in DOMAIN g.lora_available
            lora_key == IF specific THEN LoraKey(client, style) ELSE UniversalKey
        IN  IF env.altLoadOk
            THEN [g |-> [load_lora_weights_ok(first.g, UniversalPath)
                            EXCEPT !.current_lora = lora_key],
                  ret |-> TRUE,
                  t |-> Log(first.t, "loads", [path |-> UniversalPath, ok |-> TRUE])]
            ELSE [g |-> first.g, ret |-> FALSE,
                  t |-> Log(Log(first.t, "loads",
                                [path |-> UniversalPath, ok |-> FALSE]),
                            "raised", MsgAltLoad)]

\* app_FIXED_LORA_LOADING.py load_lora_weights(client, style) -> [g, ret, t]
fixed_load_lora_weights(g, client, style, env, t) ==
    fixed_alternative_load(fresh_load_lora_weights(g, client, style, env, t),
                           g, client, style, env, t)

\* pipeline(prompt, height=h, width=w, ...).images[0] -> [image, t]
call_pipeline(g, w, h, env, t) ==
    IF env.pipeOk
    THEN [image |-> Some(NewImage(w, h, "pipeline", g.adapters)),
          t |-> Log(t, "pipeline", [adapters |-> g.adapters, ok |-> TRUE])]
    ELSE [image |-> None,
          t |-> Log(Log(t, "pipeline", [adapters |-> g.adapters, ok |-> FALSE]),
                    "raised", MsgPipe)]

\* generate_with_trained_lora without the final image.resize((1800, 900))
fresh_run_pipeline_no_resize(lora, env) ==
    LET out == call_pipeline(lora.g, 1024, 512, env, lora.t)
    IN  [g |-> lora.g, image |-> out.image, t |-> out.t]

\* generate_with_trained_lora, after lora_loaded = self.load_lora_weights(...):
\* the pipeline runs whatever lora_loaded is; the image is resized
fresh_run_pipeline(lora, env) ==
    LET out == call_pipeline(lora.g, 1024, 512, env, lora.t)
    IN  [g |-> lora.g,
         image |-> IF IsNone(out.image) THEN None
                   ELSE Some(Resize(The(out.image), 1800, 900)),
         t |-> out.t]

\* generate_with_trained_lora(client, style, title) -> [g, image, t]
fresh_generate_with_trained_lora(g, fixedLoader, client, style, env, t) ==
    IF ~g.pipeline THEN [g |-> g, image |-> None, t |-> t]
    ELSE fresh_run_pipeline(IF fixedLoader
                            THEN fixed_load_lora_weights(g, client, style, env, t)
                            ELSE fresh_load_lora_weights(g, client, style, env, t),
                            env)

\* generate_programmatic_fallback(width, height, client, style)
generate_programmatic_fallback(width, height) ==
    NewImage(width, height, "programmatic", <<>>)

\* create_text_overlay with the second line taken from words[mid+1:]
fresh_title_lines_skipping_mid(title) ==
    LET words == split(upper(title))
        mid == Len(words) \div 2
    IN  IF Len(words) > 3
        THEN << join(SubSeq(words, 1, mid)),
                join(SubSeq(words, mid + 2, Len(words))) >>
        ELSE << upper(title) >>

\* create_text_overlay, the body of "if title:" up to the loop: title_lines
fresh_title_lines(title) ==
    LET words == split(upper(title))
        mid == Len(words) \div 2
    IN  IF Len(words) > 3
        THEN << join(SubSeq(words, 1, mid)),
                join(SubSeq(words, mid + 1, Len(words))) >>
        ELSE << upper(title) >>

\* create_text_overlay(width, height, title, subtitle, fonts) when it returns:
\* with no title nothing is bound to title_lines, and the call returns only
\* if there is no subtitle either
create_text_overlay(width, height, title, subtitle) ==
    LET title_y == height \div 4
        title_lines == IF title # <<>> THEN fresh_title_lines(title) ELSE <<>>
        subtitle_y == title_y + Len(title_lines) * 250 + 80
    IN  TextOverlay(height, title_lines,
                    [i \in 1..Len(title_lines) |-> title_y + (i - 1) * 250],
                    IF subtitle # <<>>
                    THEN Some(SubtitleBox(subtitle, subtitle_y,
                                          subtitle_y - 20, subtitle_y + 120))
                    ELSE None)

\* generate_cover, from "if background is None" on
fresh_finish_cover(lora, req) ==
    LET width == 1800
        height == 900
        fallback == IsNone(lora.image)
        background == IF fallback
                      THEN generate_programmatic_fallback(width, height)
                      ELSE The(lora.image)
        t1 == IF fallback
              THEN [lora.t EXCEPT !.programmatic = @ + 1]
              ELSE lora.t
        cover == compose_cover(lora.g, background, req.title, req.subtitle)
        generation_method ==
            IF req.use_trained_lora /\ lora.g.current_lora # None
            THEN "sdxl_universal_lora" ELSE "programmatic_fallback"
    IN  IF cover.ok
        THEN [g |-> lora.g,
              image |-> Some(WithText(cover.image,
                                      create_text_overlay(width, height, req.title,
                                                          req.subtitle))),
              method |-> generation_method, t |-> t1]
        ELSE [g |-> lora.g, image |-> None, method |-> "error",
              t |-> [Log(t1, "raised", cover.msg) EXCEPT !.cause = Some(cover.msg)]]

\* generate_cover with the condition "if self.lora_available and self.pipeline"
\* (use_trained_lora not consulted)
fresh_generate_cover_ignoring_flag(g, fixedLoader, req, env, t) ==
    fresh_finish_cover(
        IF DOMAIN g.lora_available # {} /\ g.pipeline
        THEN fresh_generate_with_trained_lora(g, fixedLoader, req.client,
                                              req.style, env, t)
        ELSE [g |-> g, image |-> None, t |-> t],
        req)

\* generate_cover -> [g, image, method, t]
fresh_generate_cover(g, fixedLoader, req, env, t) ==
    fresh_finish_cover(
        IF req.use_trained_lora /\ DOMAIN g.lora_available # {} /\ g.pipeline
        THEN fresh_generate_with_trained_lora(g, fixedLoader, req.client,
                                              req.style, env, t)
        ELSE [g |-> g, image |-> None, t |-> t],
        req)

\* generate_image with image_url=base64_image (the "data:image/png;base64,"
\* prefix left out)
fresh_respond_bare_base64(result, req, env) ==
        IF IsNone(result.image)
        THEN [g |-> result.g,
              resp |-> Http500(<<"Generation failed: ">>
                               \o StrHttpException("500", <<"Generation failed">>)),
              t |-> result.t]
        ELSE IF ~env.encodeOk
        THEN [g |-> result.g,
              resp |-> Http500(<<"Generation failed: ">> \o MsgEncode),
              t |-> [Log(result.t, "raised", MsgEncode) EXCEPT !.cause = Some(MsgEncode)]]
        ELSE [g |-> result.g,
              resp |-> Http200(GenerationResponse(TRUE,
                          Some([prefix |-> <<>>, payload |-> B64Png(The(result.image))]),
                          None,
                          Some([client |-> req.client, style |-> req.style,
                                title |-> req.title, subtitle |-> req.subtitle,
                                generation_method |-> result.method,
                                lora_used |-> result.g.current_lora,
                                resolution |-> <<"1800x900">>]))),
              t |-> result.t]

\* generate_image, from "if image is None" on
fresh_respond(result, req, env) ==
        IF IsNone(result.image)
        THEN \* raise HTTPException(500, "Generation failed") inside the try
             [g |-> result.g,
              resp |-> Http500(<<"Generation failed: ">>
                               \o StrHttpException("500", <<"Generation failed">>)),
              t |-> result.t]
        ELSE IF ~env.encodeOk
        THEN [g |-> result.g,
              resp |-> Http500(<<"Generation failed: ">> \o MsgEncode),
              t |-> [Log(result.t, "raised", MsgEncode) EXCEPT !.cause = Some(MsgEncode)]]
        ELSE [g |-> result.g,
              resp |-> Http200(GenerationResponse(TRUE,
                          Some(DataUri(The(result.image))), None,
                          Some([client |-> req.client, style |-> req.style,
                                title |-> req.title, subtitle |-> req.subtitle,
                                generation_method |-> result.method,
                                lora_used |-> result.g.current_lora,
                                resolution |-> <<"1800x900">>]))),
              t |-> result.t]

\* POST /generate -> [g, resp, t]
fresh_generate_image(g, fixedLoader, req, env) ==
    fresh_respond(fresh_generate_cover(g, fixedLoader, req, env, NoTrace), req, env)

\* GET /lora-status
lora_status(g) ==
    [available_loras |-> g.lora_available,
     current_lora |-> g.current_lora,
     pipeline_loaded |-> g.pipeline]

----------------------------------------------------------------------------
(* app_minimal.py: procedural generator, no model *)

\* generate_crypto_cover(title, subtitle, client, style): logs and re-raises
minimal_generate_crypto_cover(req, env, t) ==
    IF env.drawOk
    THEN [image |-> Some(Composite(NewImage(1792, 896, "programmatic", <<>>), "text")),
          t |-> [t EXCEPT !.programmatic = @ + 1]]
    ELSE [image |-> None,
          t |-> [Log(t, "raised", MsgDraw) EXCEPT !.cause = Some(MsgDraw),
                                                  !.programmatic = @ + 1]]

\* POST /generate: every exception is answered with GenerationResponse(success=False)
minimal_generate_image(g, req, env) ==
    LET cover == minimal_generate_crypto_cover(req, env, NoTrace)
    IN  IF IsNone(cover.image)
        THEN [g |-> g, t |-> cover.t,
              resp |-> Http200(GenerationResponse(FALSE, None, Some(MsgDraw), None))]
        ELSE IF ~env.encodeOk
        THEN [g |-> g,
              t |-> [Log(cover.t, "raised", MsgEncode) EXCEPT !.cause = Some(MsgEncode)],
              resp |-> Http200(GenerationResponse(FALSE, None, Some(MsgEncode), None))]
        ELSE [g |-> g, t |-> cover.t,
              resp |-> Http200(GenerationResponse(TRUE,
                          Some(DataUri(The(cover.image))), None,
                          Some([client |-> req.client, style |-> req.style,
                                title |-> req.title,
                                method |-> <<"minimal_generation">>])))]

----------------------------------------------------------------------------
(* app_fixed.py: runs simple_lora_generator.py in a subprocess *)

\* f"/app/style_outputs/boxed_cover_{client}.png"
OutputPath(client) == <<"/app/style_outputs/boxed_cover_", client, ".png">>

\* f"/download/{client}.png"
DownloadUrl(client) == [prefix |-> <<"/download/">>, payload |-> <<client, ".png">>]

\* simple_lora_generator.py generate_cover: the image saved to
\* style_outputs/boxed_cover_<client>.png
simple_generate_cover(req) ==
    Composite(NewImage(1792, 896, "programmatic", <<>>), "text")

\* main() skipping generate_cover when the output file is already there
simple_lora_generator_main_keeping_existing(outputs, req) ==
    IF \E f \in outputs : f.client = req.client THEN outputs
    ELSE outputs \cup {[client |-> req.client, image |-> simple_generate_cover(req),
                        written_for |-> Some(req)]}

\* The script run to its end (exit status 0) has saved the file.
simple_lora_generator_main(outputs, req) ==
    {f \in outputs : f.client # req.client}
        \cup {[client |-> req.client, image |-> simple_generate_cover(req),
               written_for |-> Some(req)]}

\* POST /generate -> [outputs, resp, t]
fixed_generate_image(outputs, req, env) ==
    LET t0 == [NoTrace EXCEPT !.programmatic = 1]
    IN
    CASE env.proc = "timeout" ->
            [outputs |-> outputs,
             t |-> [Log(t0, "raised", <<"TimeoutExpired">>)
                        EXCEPT !.cause = Some(<<"TimeoutExpired">>)],
             resp |-> Http200(GenerationResponse(FALSE, None,
                                 Some(<<"Generation timeout">>), None))]
      [] env.proc = "exit1" ->
            [outputs |-> outputs,
             t |-> [Log(t0, "raised", MsgStderr) EXCEPT !.cause = Some(MsgStderr)],
             resp |-> Http200(GenerationResponse(FALSE, None,
                                 Some(<<"Generation failed: ">> \o MsgStderr), None))]
      [] OTHER ->
            LET written == simple_lora_generator_main(outputs, req)
            IN  IF \E f \in written : f.client = req.client
                THEN [outputs |-> written, t |-> t0,
                      resp |-> Http200(GenerationResponse(TRUE,
                                  Some(DownloadUrl(req.client)), None,
                                  Some([client |-> req.client, style |-> req.style,
                                        title |-> req.title,
                                        output_path |-> OutputPath(req.client)])))]
                ELSE [outputs |-> written, t |-> t0,
                      resp |-> Http200(GenerationResponse(FALSE, None,
                                  Some(<<"Output file not created">>), None))]

\* GET /download/{client}.png: the file at
\* /app/style_outputs/boxed_cover_{client}.png, or 404
download_image(outputs, client) ==
    IF \E f \in outputs : f.client = client
    THEN [status |-> 200, file |-> CHOOSE f \in outputs : f.client = client]
    ELSE [status |-> 404, detail |-> <<"Image not found">>]

----------------------------------------------------------------------------
(* universal_lora_deploy_2025-10-14/app_minimal_sd15.py *)

\* __init__: load_pipeline and load_lora re-raise, so a process that serves
\* requests holds the pipeline with the universal LoRA loaded
sd15_init ==
    [Generator({UniversalPath}, FALSE, TRUE, EmptyDict) EXCEPT !.adapters = <<UniversalPath>>]

\* LoRAGenerator.generate(client, style, title) -> [image (base64), t]
sd15_generate(g, req, env, t) ==
    LET out == call_pipeline(g, 1024, 512, env, t)
    IN  IF IsNone(out.image)
        THEN [b64 |-> None, t |-> [out.t EXCEPT !.cause = Some(MsgPipe)]]
        ELSE IF ~env.encodeOk
        THEN [b64 |-> None,
              t |-> [Log(out.t, "raised", MsgEncode) EXCEPT !.cause = Some(MsgEncode)]]
        ELSE [b64 |-> Some(B64Png(Composite(The(out.image), "text"))), t |-> out.t]

\* POST /generate
sd15_generate_cover(g, req, env) ==
    LET out == sd15_generate(g, req, env, NoTrace)
    IN  IF IsNone(out.b64)
        THEN [g |-> g, t |-> out.t, resp |-> Http500(The(out.t.cause))]
        ELSE [g |-> g, t |-> out.t,
              resp |-> Http200([success |-> TRUE, image |-> The(out.b64),
                                model |-> <<"SD 1.5 + LoRA">>])]

----------------------------------------------------------------------------
(* app_lora.py: RealLoRAGenerator *)

\* __init__: setup_pipeline raises out of the module, so a serving process
\* has the pipeline
lora_init(files, watermark) == Generator(files, watermark, TRUE, EmptyDict)

\* load_lora_model(client): load_lora_weights + fuse_lora, nothing unloaded
lora_load_lora_model(g, client, env, t) ==
    LET lora_path == ClientLoraPath(client)
    IN  IF lora_path \notin g.files THEN [g |-> g, ret |-> FALSE, t |-> t]
        ELSE IF env.loadOk
        THEN [g |-> load_lora_weights_ok(g, lora_path), ret |-> TRUE,
              t |-> Log(t, "loads", [path |-> lora_path, ok |-> TRUE])]
        ELSE [g |-> g, ret |-> FALSE,
              t |-> Log(Log(t, "loads", [path |-> lora_path, ok |-> FALSE]),
                        "raised", MsgLoad)]

\* generate_cover, after self.load_lora_model(client): any exception -> None
lora_finish_cover(lora, req, env) ==
    LET out == call_pipeline(lora.g, 1792, 896, env, lora.t)
    IN  IF IsNone(out.image)
        THEN [g |-> lora.g, image |-> None,
              t |-> [out.t EXCEPT !.cause = Some(MsgPipe)]]
        ELSE
        LET cover == compose_cover(lora.g, Resize(The(out.image), 1800, 900),
                                   req.title, req.subtitle)
        IN  IF cover.ok
            THEN [g |-> lora.g, image |-> Some(cover.image), t |-> out.t]
            ELSE [g |-> lora.g, image |-> None,
                  t |-> [Log(out.t, "raised", cover.msg)
                            EXCEPT !.cause = Some(cover.msg)]]

\* generate_cover -> [g, image, t]
lora_generate_cover(g, req, env, t) ==
    lora_finish_cover(lora_load_lora_model(g, req.client, env, t), req, env)

\* generate_image answering a failure with GenerationResponse(success=False)
\* instead of raising HTTPException
lora_respond_returns_error(result, req, env) ==
        IF IsNone(result.image)
        THEN [g |-> result.g, t |-> result.t,
              resp |-> Http200(GenerationResponse(FALSE, None,
                          Some(<<"Failed to generate image">>), None))]
        ELSE IF ~env.encodeOk
        THEN [g |-> result.g,
              t |-> [Log(result.t, "raised", MsgEncode) EXCEPT !.cause = Some(MsgEncode)],
              resp |-> Http200(GenerationResponse(FALSE, None, Some(MsgEncode), None))]
        ELSE [g |-> result.g, t |-> result.t,
              resp |-> Http200(GenerationResponse(TRUE,
                          Some(DataUri(The(result.image))), None,
                          Some([client |-> req.client, style |-> req.style,
                                title |-> req.title, subtitle |-> req.subtitle,
                                generator |-> <<"real-lora">>,
                                resolution |-> <<"1800x900">>])))]

\* generate_image, from "if image is None" on
lora_respond(result, req, env) ==
        IF IsNone(result.image)
        THEN [g |-> result.g, t |-> result.t,
              resp |-> Http500(<<"Generation failed: ">>
                          \o StrHttpException("500", <<"Failed to generate image">>))]
        ELSE IF ~env.encodeOk
        THEN [g |-> result.g,
              t |-> [Log(result.t, "raised", MsgEncode) EXCEPT !.cause = Some(MsgEncode)],
              resp |-> Http500(<<"Generation failed: ">> \o MsgEncode)]
        ELSE [g |-> result.g, t |-> result.t,
              resp |-> Http200(GenerationResponse(TRUE,
                          Some(DataUri(The(result.image))), None,
                          Some([client |-> req.client, style |-> req.style,
                                title |-> req.title, subtitle |-> req.subtitle,
                                generator |-> <<"real-lora">>,
                                resolution |-> <<"1800x900">>])))]

\* POST /generate
lora_generate_image(g, req, env) ==
    lora_respond(lora_generate_cover(g, req, env, NoTrace), req, env)

----------------------------------------------------------------------------
(* app_enhanced_fallback.py: EnhancedUniversalGenerator *)

\* __init__: check_universal_lora + try_load_lora_pipeline.  lora_pipeline is
\* kept only when the pipeline loaded and the universal file was loaded into
\* it; otherwise lora_pipeline = None and universal_lora_available = False.
enhanced_init(files, watermark, pipelineLoads) ==
    IF UniversalPath \in files /\ pipelineLoads
    THEN [Generator(files, watermark, TRUE,
                    [k \in {UniversalKey} |-> UniversalPath])
             EXCEPT !.adapters = <<UniversalPath>>]
    ELSE Generator(files, watermark, FALSE, EmptyDict)

\* generate_with_universal_lora(title, client, style) -> [image, t]
enhanced_generate_with_universal_lora(g, req, env, t) ==
    IF ~g.pipeline THEN [image |-> None, t |-> t]
    ELSE LET out == call_pipeline(g, 1024, 512, env, t)
         IN  [image |-> IF IsNone(out.image) THEN None
                        ELSE Some(Resize(The(out.image), 1800, 900)),
              t |-> out.t]

\* generate_cover, from "if background is None" on
enhanced_finish_cover(g, lora, req) ==
    LET width == 1800
        height == 900
        fallback == IsNone(lora.image)
        background == IF fallback
                      THEN generate_programmatic_fallback(width, height)
                      ELSE The(lora.image)
        t1 == IF fallback THEN [lora.t EXCEPT !.programmatic = @ + 1] ELSE lora.t
        generation_method == IF fallback THEN "enhanced_fallback" ELSE "universal_lora"
        cover == compose_cover(g, background, req.title, req.subtitle)
    IN  IF cover.ok
        THEN [g |-> g, image |-> Some(cover.image), method |-> generation_method,
              t |-> t1]
        ELSE [g |-> g, image |-> None, method |-> "error",
              t |-> [Log(t1, "raised", cover.msg) EXCEPT !.cause = Some(cover.msg)]]

\* generate_cover -> [g, image, method, t]
enhanced_generate_cover(g, req, env, t) ==
    enhanced_finish_cover(g,
        IF req.use_trained_lora /\ g.pipeline
        THEN enhanced_generate_with_universal_lora(g, req, env, t)
        ELSE [image |-> None, t |-> t],
        req)

\* generate_image, from "if image is None" on
enhanced_respond(result, req, env) ==
        IF IsNone(result.image)
        THEN [g |-> result.g, t |-> result.t,
              resp |-> Http500(<<"Generation failed: ">>
                               \o StrHttpException("500", <<"Generation failed">>))]
        ELSE IF ~env.encodeOk
        THEN [g |-> result.g,
              t |-> [Log(result.t, "raised", MsgEncode) EXCEPT !.cause = Some(MsgEncode)],
              resp |-> Http500(<<"Generation failed: ">> \o MsgEncode)]
        ELSE [g |-> result.g, t |-> result.t,
              resp |-> Http200(GenerationResponse(TRUE,
                          Some(DataUri(The(result.image))), None,
                          Some([client |-> req.client, style |-> req.style,
                                title |-> req.title, subtitle |-> req.subtitle,
                                generation_method |-> result.method,
                                universal_lora_available |->
                                    UniversalKey \in DOMAIN result.g.lora_available,
                                resolution |-> <<"1800x900">>,
                                generator |-> <<"enhanced-universal-v3">>])))]

\* POST /generate
enhanced_generate_image(g, req, env) ==
    enhanced_respond(enhanced_generate_cover(g, req, env, NoTrace), req, env)

----------------------------------------------------------------------------
(* universal_lora_deploy_2025-10-14/app_LORA_ONLY.py and app_CPU_LORA.py:  *)
(* PureLoRACoverGenerator and CPULoRACoverGenerator, no fallback           *)

\* __init__: SystemExit unless models/lora and the universal file exist and
\* the pipeline loads
pure_init(watermark) ==
    Generator({UniversalPath}, watermark, TRUE,
              [k \in {UniversalKey} |-> UniversalPath])

\* force_load_lora_weights without the unload_lora_weights() of the weights
\* loaded before
force_load_lora_weights_keeping(g, env, t) ==
    LET lora_path == g.lora_available[UniversalKey]
    IN  IF env.loadOk
        THEN [g |-> [load_lora_weights_ok(g, lora_path)
                        EXCEPT !.current_lora = UniversalKey],
              ok |-> TRUE, msg |-> None,
              t |-> Log(t, "loads", [path |-> lora_path, ok |-> TRUE])]
        ELSE [g |-> g, ok |-> FALSE, msg |-> <<"LoRA loading failed: ">> \o MsgLoad,
              t |-> Log(Log(t, "loads", [path |-> lora_path, ok |-> FALSE]),
                        "raised", MsgLoad)]

\* force_load_lora_weights -> [g, ok, msg, t]; the exception is re-raised as
\* Exception(f"LoRA loading failed: {e}")
force_load_lora_weights(g, env, t) ==
    LET lora_path == g.lora_available[UniversalKey]
        g1 == IF g.current_lora # None THEN unload_lora_weights(g) ELSE g
    IN  IF env.loadOk
        THEN [g |-> [load_lora_weights_ok(g1, lora_path)
                        EXCEPT !.current_lora = UniversalKey],
              ok |-> TRUE, msg |-> None,
              t |-> Log(t, "loads", [path |-> lora_path, ok |-> TRUE])]
        ELSE [g |-> g1, ok |-> FALSE, msg |-> <<"LoRA loading failed: ">> \o MsgLoad,
              t |-> Log(Log(t, "loads", [path |-> lora_path, ok |-> FALSE]),
                        "raised", MsgLoad)]

\* generate_with_universal_lora with force_load_lora_weights' exception
\* swallowed: the pipeline runs whether or not the LoRA was loaded
pure_run_pipeline_unchecked(lora, prefix, env) ==
        LET out == call_pipeline(lora.g, 1024, 512, env, lora.t)
        IN  IF IsNone(out.image)
            THEN [g |-> lora.g, image |-> None, msg |-> prefix \o MsgPipe,
                  t |-> [out.t EXCEPT !.cause = Some(MsgPipe)]]
            ELSE [g |-> lora.g, image |-> Some(Resize(The(out.image), 1800, 900)),
                  msg |-> None, t |-> out.t]

\* generate_with_universal_lora / generate_with_cpu_lora, after
\* self.force_load_lora_weights(): a pipeline exception is re-raised as
\* Exception(f"{prefix}{e}")
pure_run_pipeline(lora, prefix, env) ==
        IF ~lora.ok
        THEN [g |-> lora.g, image |-> None, msg |-> lora.msg,
              t |-> [lora.t EXCEPT !.cause = Some(MsgLoad)]]
        ELSE
        LET out == call_pipeline(lora.g, 1024, 512, env, lora.t)
        IN  IF IsNone(out.image)
            THEN [g |-> lora.g, image |-> None, msg |-> prefix \o MsgPipe,
                  t |-> [out.t EXCEPT !.cause = Some(MsgPipe)]]
            ELSE [g |-> lora.g, image |-> Some(Resize(The(out.image), 1800, 900)),
                  msg |-> None, t |-> out.t]

\* generate_with_universal_lora / generate_with_cpu_lora -> [g, image, msg, t]
pure_generate_with_lora(g, prefix, env, t) ==
    pure_run_pipeline(force_load_lora_weights(g, env, t), prefix, env)

\* generate_cover, from the return of the background on; every exception is
\* re-raised as Exception(f"{wrap}{e}")
pure_finish_cover(bg, wrap, method, req) ==
        IF IsNone(bg.image)
        THEN [g |-> bg.g, image |-> None, msg |-> wrap \o bg.msg,
              method |-> method, t |-> bg.t]
        ELSE
        LET cover == compose_cover(bg.g, The(bg.image), req.title, req.subtitle)
        IN  IF cover.ok
            THEN [g |-> bg.g, image |-> Some(cover.image), msg |-> None,
                  method |-> method, t |-> bg.t]
            ELSE [g |-> bg.g, image |-> None, msg |-> wrap \o cover.msg,
                  method |-> method,
                  t |-> [Log(bg.t, "raised", cover.msg)
                            EXCEPT !.cause = Some(cover.msg)]]

\* generate_cover -> [g, image, msg, method, t]
pure_generate_cover(g, prefix, wrap, method, req, env, t) ==
    pure_finish_cover(pure_generate_with_lora(g, prefix, env, t), wrap, method, req)

\* generate_image of both files, from the return of generate_cover on
pure_respond(result, detail, extra, req, env) ==
        IF IsNone(result.image)
        THEN [g |-> result.g, t |-> result.t,
              resp |-> Http500(detail \o result.msg)]
        ELSE IF ~env.encodeOk
        THEN [g |-> result.g,
              t |-> [Log(result.t, "raised", MsgEncode) EXCEPT !.cause = Some(MsgEncode)],
              resp |-> Http500(detail \o MsgEncode)]
        ELSE [g |-> result.g, t |-> result.t,
              resp |-> Http200(GenerationResponse(TRUE,
                          Some(DataUri(The(result.image))), None,
                          Some([client |-> req.client, style |-> req.style,
                                title |-> req.title, subtitle |-> req.subtitle,
                                generation_method |-> result.method,
                                lora_used |-> result.g.current_lora,
                                resolution |-> <<"1800x900">>,
                                extra |-> extra])))]

\* POST /generate of both files -> [g, resp, t]
pure_generate_image(g, prefix, wrap, detail, method, extra, req, env) ==
    pure_respond(pure_generate_cover(g, prefix, wrap, method, req, env, NoTrace),
                 detail, extra, req, env)

\* app_LORA_ONLY.py generate_image
lora_only_generate_image(g, req, env) ==
    pure_generate_image(g, <<"LoRA generation failed: ">>,
                        <<"LoRA generation failed - NO FALLBACKS: ">>,
                        <<"LoRA generation failed (NO FALLBACKS): ">>,
                        "pure_universal_lora", <<"fallbacks_used", "False">>,
                        req, env)

\* app_CPU_LORA.py generate_image
cpu_generate_image(g, req, env) ==
    pure_generate_image(g, <<"CPU LoRA generation failed: ">>,
                        <<"CPU LoRA generation failed: ">>,
                        <<"CPU LoRA generation failed: ">>,
                        "cpu_universal_lora", <<"device", "cpu">>,
                        req, env)

----------------------------------------------------------------------------
(* universal_lora_deploy_2025-10-14/app.py: Gradio app, lazily loaded pipeline *)

TrainedLoraPath == LoraDir \o <<"/">> \o <<"trained_crypto_lora.safetensors">>

\* module level: _pipeline = None
gradio_init(files) == Generator(files, FALSE, FALSE, EmptyDict)

\* load_lora_pipeline() -> [g, ok, t]; exceptions are re-raised
load_lora_pipeline(g, env, t) ==
    IF g.pipeline THEN [g |-> g, ok |-> TRUE, t |-> t]
    ELSE IF ~env.pipeLoadOk
    THEN [g |-> g, ok |-> FALSE,
          t |-> [Log(t, "raised", MsgPipeLoad) EXCEPT !.cause = Some(MsgPipeLoad)]]
    ELSE IF TrainedLoraPath \notin g.files
    THEN [g |-> [g EXCEPT !.pipeline = TRUE], ok |-> TRUE, t |-> t]
    ELSE IF env.loadOk
    THEN [g |-> [load_lora_weights_ok(g, TrainedLoraPath) EXCEPT !.pipeline = TRUE],
          ok |-> TRUE,
          t |-> Log(t, "loads", [path |-> TrainedLoraPath, ok |-> TRUE])]
    ELSE [g |-> g, ok |-> FALSE,
          t |-> [Log(Log(t, "loads", [path |-> TrainedLoraPath, ok |-> FALSE]),
                     "raised", MsgLoad) EXCEPT !.cause = Some(MsgLoad)]]

\* Image.new('RGB', (768, 768), color='red') with "Error: ..." drawn on it
ErrorImage(msg) ==
    [NewImage(768, 768, "error", <<>>) EXCEPT !.layers = Append(@, "error_text")]

\* generate_crypto_cover(prompt, title, ...) -> [g, resp, t]: the image shown
gradio_generate_crypto_cover(g, req, env) ==
    LET pl == load_lora_pipeline(g, env, NoTrace)
    IN  IF ~pl.ok
        THEN [g |-> pl.g, t |-> pl.t,
              resp |-> [output |-> ErrorImage(The(pl.t.cause))]]
        ELSE
        LET out == call_pipeline(pl.g, 768, 768, env, pl.t)
        IN  IF IsNone(out.image)
            THEN [g |-> pl.g, t |-> [out.t EXCEPT !.cause = Some(MsgPipe)],
                  resp |-> [output |-> ErrorImage(MsgPipe)]]
            ELSE [g |-> pl.g, t |-> out.t,
                  resp |-> [output |-> IF req.title # <<>>
                                       THEN Composite(The(out.image), "text")
                                       ELSE The(out.image)]]

----------------------------------------------------------------------------
(* hf_spaces_client.py: command-line client of the Space *)

space_urls ==
    << <<"ValtronK/crypto-news-lora-generator">>,
       <<"https://huggingface.co/spaces/", "ValtronK/crypto-news-lora-generator">> >>

\* the for loop over space_urls: Client(space_url), break on the first success
client_connect(env, t) ==
    LET t1 == Log(t, "connects", [url |-> space_urls[1], ok |-> env.connect1Ok])
    IN  IF env.connect1Ok THEN [client |-> Some(space_urls[1]), t |-> t1]
        ELSE
        LET t2 == Log(Log(t1, "raised", <<"connect_error">>), "connects",
                      [url |-> space_urls[2], ok |-> env.connect2Ok])
        IN  IF env.connect2Ok THEN [client |-> Some(space_urls[2]), t |-> t2]
            ELSE [client |-> None, t |-> Log(t2, "raised", <<"connect_error">>)]

ClientFailure(error) ==
    [success |-> FALSE, error |-> error, image_url |-> None]

\* the character U+2705 the Spaces put in front of their status text
CheckMark == "(check mark)"

\* HF_SPACES_READY_WITH_TITLES/app.py, create_massive_text_overlay, the body
\* of "if title and title.strip():" up to the loop: title_lines
massive_title_lines(title) ==
    LET stripped == strip(upper(title))
        words == split(stripped)
        mid == Len(words) \div 2
    IN  IF Len(words) > 3
        THEN << join(SubSeq(words, 1, mid)),
                join(SubSeq(words, mid + 1, Len(words))) >>
        ELSE IF Len(words) > 1
        THEN << <<words[1]>>, join(SubSeq(words, 2, Len(words))) >>
        ELSE << stripped >>

\* create_massive_text_overlay(width, height, title, subtitle, fonts) when it
\* returns
create_massive_text_overlay(width, height, title, subtitle) ==
    LET title_y == height \div 6
        title_lines == IF title # <<>> /\ strip(title) # <<>>
                       THEN massive_title_lines(title) ELSE <<>>
        subtitle_y == title_y + Len(title_lines) * 350 + 100
    IN  TextOverlay(height, title_lines,
                    [i \in 1..Len(title_lines) |-> title_y + (i - 1) * 350],
                    IF subtitle # <<>> /\ strip(subtitle) # <<>>
                    THEN Some(SubtitleBox(strip(subtitle), subtitle_y,
                                          subtitle_y - 30, subtitle_y + 150))
                    ELSE None)

\* HF_SPACES_READY_WITH_TITLES/app.py and app_gradio_with_titles.py,
\* generate_cover(title, subtitle, client_id, style) -> <<status, image>>:
\* a drawn background, the text overlay, the watermark; any exception gives
\* the failure text and None
titles_generate_cover(g, req, env) ==
    IF ~env.drawOk
    THEN << <<"(cross mark)", " Generation failed: ">> \o MsgDraw, None >>
    ELSE
    LET cover == compose_cover(g, NewImage(1800, 900, "programmatic", <<>>),
                               req.title, req.subtitle)
    IN  IF cover.ok
        THEN << <<CheckMark, " Cover generated with title overlay successfully!">>,
                Some(WithText(cover.image,
                              create_massive_text_overlay(1800, 900, req.title,
                                                          req.subtitle))) >>
        ELSE << <<"(cross mark)", " Generation failed: ">> \o cover.msg, None >>

\* universal_lora_deploy_2025-10-14/app.py called with the client's four
\* arguments: they arrive as prompt, title, negative_prompt and num_steps, so
\* num_inference_steps is the style name and the scheduler's arithmetic on it
\* raises; generate_crypto_cover answers every exception with its error image
prompt_generate_crypto_cover(req, env) ==
    gradio_generate_crypto_cover(gradio_init({}),
                                 [req EXCEPT !.title = req.subtitle],
                                 [env EXCEPT !.pipeOk = FALSE]).resp.output

\* what client.predict returns: the outputs of the Space's function, an image
\* as the path of the file it was downloaded to.  Two outputs come as a pair;
\* a single output comes as the path itself, a string, whose elements are its
\* characters (each a text of one token here).
predict_result(g, req, env) ==
    IF env.space = "titles"
    THEN LET out == titles_generate_cover(g, req, env)
         IN  [result |-> << out[1],
                            IF IsNone(out[2]) THEN None
                            ELSE Some([path |-> <<"/tmp/gradio/image.png">>,
                                       image |-> The(out[2])]) >>,
              cover |-> out[2]]
    ELSE LET image == prompt_generate_crypto_cover(req, env)
         IN  [result |-> << <<"/">>, <<"t">>, <<"m">>, <<"p">>, <<"/">>, <<"g">>,
                            <<"r">>, <<"a">>, <<"d">>, <<"i">>, <<"o">> >>,
              cover |-> IF image.background = "error" THEN None ELSE Some(image)]

\* the test reduced to "if image_data": the status text is not looked at
client_accepts_any_image(status_text, image_data) == image_data # None

\* if status_text and "\u2705" in status_text and image_data
client_accepts(status_text, image_data) ==
    /\ status_text # <<>>
    /\ Contains(status_text, <<CheckMark>>)
    /\ image_data # None

\* generate_cover, from the return of client.predict on
client_handle_result(g, req, predicted, t) ==
    LET result == predicted.result
        t1 == Log(t, "space", [cover |-> predicted.cover])
    IN  IF Len(result) < 2
        THEN [g |-> g, t |-> t1,
              resp |-> ClientFailure(<<"Invalid response format from HF Spaces">>)]
        ELSE
        LET status_text == result[1]
            image_data == result[2]
        IN  IF client_accepts(status_text, image_data)
            THEN [g |-> g, t |-> t1,
                  resp |-> [success |-> TRUE, image_url |-> image_data,
                            status |-> status_text,
                            metadata |-> [title |-> req.title,
                                          subtitle |-> req.subtitle,
                                          client_id |-> req.client,
                                          style |-> req.style,
                                          generation_method |-> <<"gradio_client">>]]]
            ELSE [g |-> g, t |-> t1,
                  resp |-> ClientFailure(<<"Generation failed: ">> \o status_text)]

\* generate_cover(title, subtitle, client_id, style) -> [g, resp, t]
client_generate_cover(g, req, env) ==
    LET conn == client_connect(env, NoTrace)
    IN  IF IsNone(conn.client)
        THEN [g |-> g,
              t |-> [conn.t EXCEPT !.cause = Some(<<"Could not connect to any HF Space URL">>)],
              resp |-> ClientFailure(<<"Gradio client error: ",
                                       "Could not connect to any HF Space URL">>)]
        ELSE
        CASE env.predict = "raises" ->
                [g |-> g,
                 t |-> [Log(conn.t, "raised", MsgPredict) EXCEPT !.cause = Some(MsgPredict)],
                 resp |-> ClientFailure(<<"Gradio client error: ">> \o MsgPredict)]
          [] env.predict = "malformed" ->
                [g |-> g, t |-> conn.t,
                 resp |-> ClientFailure(<<"Invalid response format from HF Spaces">>)]
          [] OTHER ->
                client_handle_result(g, req, predict_result(g, req, env), conn.t)

----------------------------------------------------------------------------
(* lora_training_pipeline.py: TrainedLoRAIntegration, a class used in-process *)

\* f"models/lora/cover_styles/{client}_{style}_lora.safetensors"
CoverStylePath(client, style) ==
    <<"models/lora/cover_styles">> \o <<"/">> \o <<client, "_", style>>
        \o <<"_lora.safetensors">>

\* __init__: pipeline = None, current_lora = None
trained_init(files) == Generator(files, FALSE, FALSE, EmptyDict)

\* load_pipeline(): a new pipeline object, without LoRA weights; current_lora
\* is not touched
trained_load_pipeline(g) == [g EXCEPT !.pipeline = TRUE, !.adapters = <<>>]

\* load_cover_style_lora(client, style) -> [g, ret, t]: a missing file returns
\* False before anything is unloaded
load_cover_style_lora(g, client, style, env, t) ==
    LET lora_path == CoverStylePath(client, style)
        g1 == IF g.current_lora # None THEN unload_lora_weights(g) ELSE g
    IN  IF lora_path \notin g.files THEN [g |-> g, ret |-> FALSE, t |-> t]
        ELSE IF env.loadOk
        THEN [g |-> [load_lora_weights_ok(g1, lora_path)
                        EXCEPT !.current_lora = LoraKey(client, style)],
              ret |-> TRUE,
              t |-> Log(t, "loads", [path |-> lora_path, ok |-> TRUE])]
        ELSE [g |-> g1, ret |-> FALSE,
              t |-> Log(Log(t, "loads", [path |-> lora_path, ok |-> FALSE]),
                        "raised", MsgLoad)]

\* generate_cover_background, after lora_loaded = self.load_cover_style_lora(...):
\* the pipeline runs whatever lora_loaded is; any exception -> None
trained_run_pipeline(lora, width, height, env) ==
    LET out == call_pipeline(lora.g, 512, 512, env, lora.t)
    IN  IF IsNone(out.image)
        THEN [g |-> lora.g, t |-> [out.t EXCEPT !.cause = Some(MsgPipe)],
              resp |-> [image |-> None, raises |-> None]]
        ELSE [g |-> lora.g, t |-> out.t,
              resp |-> [image |-> Some(Resize(The(out.image), width, height)),
                        raises |-> None]]

\* generate_cover_background(client, style, title, width=1800, height=900)
\* -> [g, resp, t]: the image returned, or the ValueError raised
generate_cover_background(g, req, env) ==
    IF ~g.pipeline
    THEN [g |-> g,
          t |-> [Log(NoTrace, "raised", <<"Pipeline not loaded">>)
                    EXCEPT !.cause = Some(<<"Pipeline not loaded">>)],
          resp |-> [image |-> None, raises |-> Some(<<"ValueError">>)]]
    ELSE trained_run_pipeline(
            load_cover_style_lora(g, req.client, req.style, env, NoTrace),
            1800, 900, env)

----------------------------------------------------------------------------
(* boxed_subtitle_generator.py: BoxedSubtitleGenerator, a command-line tool *)

\* f"/Users/valorkopeny/crypto-news-curator-backend/ai-cover-generator/models/lora/{client}_lora.safetensors"
BoxedLoraPath(client) ==
    <<"/Users/valorkopeny/crypto-news-curator-backend/ai-cover-generator/models/lora">>
        \o <<"/">> \o <<client>> \o <<"_lora.safetensors">>

\* a file at path whose content starts with '#': a prompt-based placeholder
Placeholder(path) == <<"#">> \o path

\* __init__: setup_pipeline raises out of the constructor, so an object that
\* exists has the pipeline
boxed_init(files, watermark) == Generator(files, watermark, TRUE, EmptyDict)

\* load_lora_model(client) -> [g, ret, t]: load_lora_weights + fuse_lora,
\* nothing unloaded
boxed_load_lora_model(g, client, env, t) ==
    LET lora_path == BoxedLoraPath(client)
    IN  IF Placeholder(lora_path) \in g.files THEN [g |-> g, ret |-> FALSE, t |-> t]
        ELSE IF lora_path \notin g.files THEN [g |-> g, ret |-> FALSE, t |-> t]
        ELSE IF env.loadOk
        THEN [g |-> load_lora_weights_ok(g, lora_path), ret |-> TRUE,
              t |-> Log(t, "loads", [path |-> lora_path, ok |-> TRUE])]
        ELSE [g |-> g, ret |-> FALSE,
              t |-> Log(Log(t, "loads", [path |-> lora_path, ok |-> FALSE]),
                        "raised", MsgLoad)]

\* generate_boxed_cover, after lora_loaded = self.load_lora_model(client):
\* the text overlay is made only "if title"; any exception -> (None, None)
boxed_finish_cover(lora, req, env) ==
    LET out == call_pipeline(lora.g, 1792, 896, env, lora.t)
    IN  IF IsNone(out.image)
        THEN [g |-> lora.g, t |-> [out.t EXCEPT !.cause = Some(MsgPipe)],
              resp |-> [image |-> None, raises |-> None]]
        ELSE
        LET resized_image == Resize(The(out.image), 1800, 900)
            base_rgba == IF req.title # <<>>
                         THEN Composite(resized_image, "text")
                         ELSE resized_image
            final_image == IF lora.g.watermark
                           THEN Composite(base_rgba, "watermark")
                           ELSE base_rgba
        IN  [g |-> lora.g, t |-> out.t,
             resp |-> [image |-> Some(final_image), raises |-> None]]

\* generate_boxed_cover(title, subtitle, client) -> [g, resp, t]
generate_boxed_cover(g, req, env) ==
    boxed_finish_cover(boxed_load_lora_model(g, req.client, env, NoTrace), req, env)

----------------------------------------------------------------------------
(* Startup: the module-level code of each file *)

FreshFiles == SUBSET {LoraPath("hedera", "dark_theme"), UniversalPath}

\* a cover left in /app/style_outputs before the process started
LeftoverOutput ==
    [client |-> "hedera", image |-> simple_generate_cover(<<>>), written_for |-> None]

Startups(v) ==
    CASE v \in {"fresh", "fresh_fixed"} ->
            { [generator |-> fresh_init(files, wm, pl), style_outputs |-> {}] :
                files \in FreshFiles, wm \in BOOLEAN, pl \in BOOLEAN }
      [] v = "enhanced" ->
            { [generator |-> enhanced_init(files, wm, pl), style_outputs |-> {}] :
                files \in SUBSET {UniversalPath}, wm \in BOOLEAN, pl \in BOOLEAN }
      [] v = "lora" ->
            { [generator |-> lora_init(files, wm), style_outputs |-> {}] :
                files \in SUBSET {ClientLoraPath("hedera")}, wm \in BOOLEAN }
      [] v \in {"cpu", "lora_only"} ->
            { [generator |-> pure_init(wm), style_outputs |-> {}] : wm \in BOOLEAN }
      [] v = "sd15" ->
            { [generator |-> sd15_init, style_outputs |-> {}] }
      [] v = "gradio" ->
            { [generator |-> gradio_init(files), style_outputs |-> {}] :
                files \in SUBSET {TrainedLoraPath} }
      [] v = "fixed" ->
            { [generator |-> Generator({}, FALSE, FALSE, EmptyDict),
               style_outputs |-> out] : out \in SUBSET {LeftoverOutput} }
      [] v = "trained" ->
            { [generator |-> trained_init(files), style_outputs |-> {}] :
                files \in SUBSET {CoverStylePath("hedera", "dark_theme")} }
      [] v = "boxed" ->
            { [generator |-> boxed_init(files, wm), style_outputs |-> {}] :
                files \in { {}, {BoxedLoraPath("hedera")},
                            {BoxedLoraPath("hedera"), BoxedLoraPath("algorand")},
                            {BoxedLoraPath("hedera"),
                             Placeholder(BoxedLoraPath("algorand"))} },
                wm \in BOOLEAN }
      [] v = "client" ->  \* the watermark of the Space the client calls
            { [generator |-> Generator({}, wm, FALSE, EmptyDict),
               style_outputs |-> {}] : wm \in BOOLEAN }
      [] OTHER ->  \* minimal: no state
            { [generator |-> Generator({}, FALSE, FALSE, EmptyDict),
               style_outputs |-> {}] }

Init ==
    /\ variant \in Variants
    /\ startup \in Startups(variant)
    /\ generator = startup.generator
    /\ style_outputs = startup.style_outputs
    /\ inflight = <<>>
    /\ last = None

----------------------------------------------------------------------------
(* Requests *)

\* The fields each service's request model declares; the others keep one value.
RequestsOf(v) ==
    CASE v \in {"fresh", "fresh_fixed"} -> Requests \cup TitleRequests
      [] v \in {"enhanced", "cpu", "lora_only"} -> Requests
      [] v = "sd15" ->
            {r \in Requests : r.use_trained_lora /\ r.subtitle = <<>>}
      [] v = "gradio" ->
            {r \in Requests : r.use_trained_lora /\ r.subtitle = <<>>
                              /\ r.client = "hedera" /\ r.style = "dark_theme"}
      [] v = "trained" ->
            {r \in Requests : r.use_trained_lora /\ r.subtitle = <<>>}
      [] v = "boxed" ->
            {r \in Requests : r.use_trained_lora /\ r.style = "dark_theme"}
      [] v = "client" ->
            {r \in Requests : r.use_trained_lora /\ r.style = "energy_fields"}
                \cup TitleRequests
      [] OTHER -> {r \in Requests : r.use_trained_lora}

\* The library calls each service makes.
EnvsOf(v) ==
    CASE v = "fresh" ->
            {[DefaultEnv EXCEPT !.loadOk = a, !.pipeOk = b, !.encodeOk = c] :
                a \in BOOLEAN, b \in BOOLEAN, c \in BOOLEAN}
      [] v = "fresh_fixed" ->
            {[DefaultEnv EXCEPT !.loadOk = a, !.pipeOk = b, !.encodeOk = c,
                                !.altLoadOk = d] :
                a \in BOOLEAN, b \in BOOLEAN, c \in BOOLEAN, d \in BOOLEAN}
      [] v \in {"lora", "cpu", "lora_only"} ->
            {[DefaultEnv EXCEPT !.loadOk = a, !.pipeOk = b, !.encodeOk = c] :
                a \in BOOLEAN, b \in BOOLEAN, c \in BOOLEAN}
      [] v \in {"enhanced", "sd15"} ->
            {[DefaultEnv EXCEPT !.pipeOk = b, !.encodeOk = c] :
                b \in BOOLEAN, c \in BOOLEAN}
      [] v = "minimal" ->
            {[DefaultEnv EXCEPT !.drawOk = b, !.encodeOk = c] :
                b \in BOOLEAN, c \in BOOLEAN}
      [] v = "fixed" ->
            {[DefaultEnv EXCEPT !.proc = p] : p \in {"exit0", "exit1", "timeout"}}
      [] v = "gradio" ->
            {[DefaultEnv EXCEPT !.pipeLoadOk = a, !.loadOk = b, !.pipeOk = c] :
                a \in BOOLEAN, b \in BOOLEAN, c \in BOOLEAN}
      [] v \in {"trained", "boxed"} ->
            {[DefaultEnv EXCEPT !.loadOk = a, !.pipeOk = b] :
                a \in BOOLEAN, b \in BOOLEAN}
      [] OTHER ->  \* client
            {[DefaultEnv EXCEPT !.connect1Ok = a, !.connect2Ok = b, !.predict = p,
                                !.space = sp, !.drawOk = d, !.pipeLoadOk = l] :
                a \in BOOLEAN, b \in BOOLEAN, d \in BOOLEAN, l \in BOOLEAN,
                p \in {"returns", "malformed", "raises"},
                sp \in {"titles", "prompt"}}

\* The handlers run as plain "def" in Starlette's thread pool: a request is
\* taken whatever is running.
HandlersRunInThreadPool == TRUE

\* Every HTTP handler is "async def" with no await in its body and uvicorn
\* runs one event loop in one process; the client is one process per call,
\* and the two classes used in-process are called synchronously by a script.
\* A handler is entered only when none is running.
EventLoopIdle == Len(inflight) = 0

\* The event loop parses a request and enters its handler.  The Gradio app
\* (demo.launch() with no queue settings, no lock around _pipeline) leaves it
\* to the installed Gradio whether calls of generate_crypto_cover overlap.
Dispatch(req) ==
    /\ variant = "gradio" \/ EventLoopIdle
    /\ Len(inflight) < MaxInFlight
    /\ Len(generator.adapters) < MaxAdapters
    /\ inflight' = Append(inflight, req)
    /\ last' = None
    /\ UNCHANGED <<variant, generator, startup, style_outputs>>

Remove(s, i) == SubSeq(s, 1, i - 1) \o SubSeq(s, i + 1, Len(s))

\* The handler of request i runs and returns: out is its result on the live
\* state, ref the same handler's response had it run right after startup.
Return(i, out, ref) ==
    /\ generator' = out.g
    /\ last' = Some([req |-> inflight[i], resp |-> out.resp, t |-> out.t,
                     fresh |-> ref.resp])
    /\ inflight' = Remove(inflight, i)
    /\ UNCHANGED <<variant, startup>>

FreshGenerate ==
    /\ variant \in {"fresh", "fresh_fixed"}
    /\ \E i \in 1..Len(inflight), env \in EnvsOf(variant) :
         Return(i,
                fresh_generate_image(generator, variant = "fresh_fixed",
                                     inflight[i], env),
                fresh_generate_image(startup.generator, variant = "fresh_fixed",
                                     inflight[i], env))
    /\ UNCHANGED style_outputs

MinimalGenerate ==
    /\ variant = "minimal"
    /\ \E i \in 1..Len(inflight), env \in EnvsOf(variant) :
         Return(i, minimal_generate_image(generator, inflight[i], env),
                   minimal_generate_image(startup.generator, inflight[i], env))
    /\ UNCHANGED style_outputs

FixedGenerate ==
    /\ variant = "fixed"
    /\ \E i \in 1..Len(inflight), env \in EnvsOf(variant) :
         LET out == fixed_generate_image(style_outputs, inflight[i], env)
             ref == fixed_generate_image(startup.style_outputs, inflight[i], env)
         IN  /\ Return(i, [g |-> generator, resp |-> out.resp, t |-> out.t], ref)
             /\ style_outputs' = out.outputs

Sd15Generate ==
    /\ variant = "sd15"
    /\ \E i \in 1..Len(inflight), env \in EnvsOf(variant) :
         Return(i, sd15_generate_cover(generator, inflight[i], env),
                   sd15_generate_cover(startup.generator, inflight[i], env))
    /\ UNCHANGED style_outputs

LoraGenerate ==
    /\ variant = "lora"
    /\ \E i \in 1..Len(inflight), env \in EnvsOf(variant) :
         Return(i, lora_generate_image(generator, inflight[i], env),
                   lora_generate_image(startup.generator, inflight[i], env))
    /\ UNCHANGED style_outputs

EnhancedGenerate ==
    /\ variant = "enhanced"
    /\ \E i \in 1..Len(inflight), env \in EnvsOf(variant) :
         Return(i, enhanced_generate_image(generator, inflight[i], env),
                   enhanced_generate_image(startup.generator, inflight[i], env))
    /\ UNCHANGED style_outputs

CpuGenerate ==
    /\ variant = "cpu"
    /\ \E i \in 1..Len(inflight), env \in EnvsOf(variant) :
         Return(i, cpu_generate_image(generator, inflight[i], env),
                   cpu_generate_image(startup.generator, inflight[i], env))
    /\ UNCHANGED style_outputs

LoraOnlyGenerate ==
    /\ variant = "lora_only"
    /\ \E i \in 1..Len(inflight), env \in EnvsOf(variant) :
         Return(i, lora_only_generate_image(generator, inflight[i], env),
                   lora_only_generate_image(startup.generator, inflight[i], env))
    /\ UNCHANGED style_outputs

GradioGenerate ==
    /\ variant = "gradio"
    /\ \E i \in 1..Len(inflight), env \in EnvsOf(variant) :
         Return(i, gradio_generate_crypto_cover(generator, inflight[i], env),
                   gradio_generate_crypto_cover(startup.generator, inflight[i], env))
    /\ UNCHANGED style_outputs

ClientGenerate ==
    /\ variant = "client"
    /\ \E i \in 1..Len(inflight), env \in EnvsOf(variant) :
         Return(i, client_generate_cover(generator, inflight[i], env),
                   client_generate_cover(startup.generator, inflight[i], env))
    /\ UNCHANGED style_outputs

\* TrainedLoRAIntegration.load_pipeline(), called between two generations
TrainedLoadPipeline ==
    /\ variant = "trained"
    /\ EventLoopIdle
    /\ generator' = trained_load_pipeline(generator)
    /\ last' = None
    /\ UNCHANGED <<variant, startup, style_outputs, inflight>>

TrainedGenerate ==
    /\ variant = "trained"
    /\ \E i \in 1..Len(inflight), env \in EnvsOf(variant) :
         Return(i, generate_cover_background(generator, inflight[i], env),
                   generate_cover_background(startup.generator, inflight[i], env))
    /\ UNCHANGED style_outputs

BoxedGenerate ==
    /\ variant = "boxed"
    /\ \E i \in 1..Len(inflight), env \in EnvsOf(variant) :
         Return(i, generate_boxed_cover(generator, inflight[i], env),
                   generate_boxed_cover(startup.generator, inflight[i], env))
    /\ UNCHANGED style_outputs

Next ==
    \/ \E req \in RequestsOf(variant) : Dispatch(req)
    \/ FreshGenerate
    \/ MinimalGenerate
    \/ FixedGenerate
    \/ Sd15Generate
    \/ LoraGenerate
    \/ EnhancedGenerate
    \/ CpuGenerate
    \/ LoraOnlyGenerate
    \/ GradioGenerate
    \/ ClientGenerate
    \/ TrainedLoadPipeline
    \/ TrainedGenerate
    \/ BoxedGenerate

Spec == Init /\ [][Next]_vars

----------------------------------------------------------------------------
(* Vocabulary of the properties *)

\* a handler has returned and nothing was dispatched since
Served == last # None
Last == The(last)

\* the services that answer POST /generate
HttpVariants == Variants \ {"gradio", "client", "trained", "boxed"}
ServedHttp == Served /\ variant \in HttpVariants

DataPrefix == <<"data:image/png;base64,">>

\* HTTP 200 with success = true
Succeeded(resp) == resp.status = 200 /\ resp.json.success

\* HTTP 200 with success = false and an error message
ReportedFailure(resp) ==
    /\ resp.status = 200
    /\ ~resp.json.success
    /\ "error" \in DOMAIN resp.json
    /\ resp.json.error # None

IsBase64Png(x) == x.encoding = "base64" /\ x.format = "PNG"

IsBase64PngDataUri(url) ==
    /\ url # None
    /\ The(url).prefix = DataPrefix
    /\ IsBase64Png(The(url).payload)

\* the covers a response carries
ReturnedCovers(resp) ==
    IF ~Succeeded(resp) THEN {}
    ELSE IF "image" \in DOMAIN resp.json THEN {resp.json.image.image}
    ELSE IF IsBase64PngDataUri(resp.json.image_url)
    THEN {The(resp.json.image_url).payload.image}
    ELSE {}

\* every cover returned by the last call or saved under style_outputs by a
\* request
Covers ==
    {f.image : f \in {h \in style_outputs : h.written_for # None}}
        \cup (IF ~Served \/ variant = "client" THEN {}
              ELSE IF variant = "gradio" THEN {Last.resp.output}
              ELSE IF variant \in {"trained", "boxed"}
              THEN Range(Last.resp.image)
              ELSE ReturnedCovers(Last.resp))

\* the request raised somewhere
Raised == Last.t.raised # <<>>

\* the cover came from the procedural generator called as the fallback
FellBack(resp, t) ==
    /\ Succeeded(resp)
    /\ t.programmatic > 0
    /\ \A c \in ReturnedCovers(resp) : c.background = "programmatic"

\* no attempt follows a failed one
NoSecondAttempt(attempts) ==
    \A i \in 1..Len(attempts) : ~attempts[i].ok => i = Len(attempts)

----------------------------------------------------------------------------
(* C1 *)

\* C1 as stated: in every service variant a POST /generate whose generation
\* raised ends with a cover from the procedural fallback or with HTTP 500, and
\* never with an HTTP 200 that reports the failure.
C1_FallbackOr500 ==
    ServedHttp /\ Raised =>
        \/ FellBack(Last.resp, Last.t)
        \/ Last.resp.status = 500

\* C1, amended: a POST /generate during which something raised ends in one of
\* four ways: a cover from the procedural fallback; HTTP 500; a cover from the
\* pipeline when all that raised was the LoRA load, which the loaders swallow;
\* and, in app_minimal.py and app_fixed.py only, HTTP 200 with success = false
\* and the error message.  success = true is never sent without a cover.
C1_Amended ==
    ServedHttp /\ Raised =>
        \/ FellBack(Last.resp, Last.t)
        \/ Last.resp.status = 500
        \/ /\ Succeeded(Last.resp)
           /\ Range(Last.t.raised) \subseteq {MsgLoad, MsgAltLoad}
           /\ \A c \in ReturnedCovers(Last.resp) : c.background = "pipeline"
           /\ ReturnedCovers(Last.resp) # {}
        \/ /\ variant \in {"minimal", "fixed"}
           /\ ReportedFailure(Last.resp)

\* app_minimal.py has answered a request whose drawing raised
C1_Witness ==
    /\ Served
    /\ variant = "minimal"
    /\ Raised
    /\ ReportedFailure(Last.resp)

----------------------------------------------------------------------------
(* C2 *)

\* C2 as stated: every POST /generate response with success = true carries an
\* image_url that is a base64 PNG data URI and a non-null metadata object.
C2_DataUriAndMetadata ==
    ServedHttp /\ Succeeded(Last.resp) =>
        /\ "image_url" \in DOMAIN Last.resp.json
        /\ IsBase64PngDataUri(Last.resp.json.image_url)
        /\ "metadata" \in DOMAIN Last.resp.json
        /\ Last.resp.json.metadata # None

\* C2, amended: a response with success = true carries a base64 PNG data URI
\* and a non-null metadata object in every service but two: app_fixed.py sends
\* the path /download/<client>.png as image_url (with metadata), and
\* app_minimal_sd15.py sends {success, image, model}: the bare base64 PNG under
\* "image", no image_url and no metadata.
C2_Amended ==
    ServedHttp /\ Succeeded(Last.resp) =>
        CASE variant = "fixed" ->
                /\ Last.resp.json.image_url = Some(DownloadUrl(Last.req.client))
                /\ Last.resp.json.metadata # None
          [] variant = "sd15" ->
                /\ DOMAIN Last.resp.json = {"success", "image", "model"}
                /\ IsBase64Png(Last.resp.json.image)
          [] OTHER ->
                /\ IsBase64PngDataUri(Last.resp.json.image_url)
                /\ Last.resp.json.metadata # None

\* app_fixed.py has answered success = true with a download path
C2_Witness ==
    /\ Served
    /\ variant = "fixed"
    /\ Succeeded(Last.resp)
    /\ The(Last.resp.json.image_url).prefix = <<"/download/">>

----------------------------------------------------------------------------
(* C3 *)

\* C3 as stated: every cover a generator returns or saves is exactly 1800
\* pixels wide and 900 pixels high.
C3_Always1800x900 ==
    \A c \in Covers : c.width = 1800 /\ c.height = 900

\* the size each file gives its covers
CoverSize(v) ==
    CASE v \in {"minimal", "fixed"} -> <<1792, 896>>
      [] v = "sd15" -> <<1024, 512>>
      [] v = "gradio" -> <<768, 768>>
      [] OTHER -> <<1800, 900>>

\* C3, amended: the covers of the class-based SDXL services (FRESH app.py,
\* app_lora.py, app_enhanced_fallback.py, app_CPU_LORA.py, app_LORA_ONLY.py)
\* are 1800x900 on every path; app_minimal.py and simple_lora_generator.py
\* produce 1792x896, app_minimal_sd15.py 1024x512, and the Gradio app 768x768,
\* its error image included.
C3_Amended ==
    \A c \in Covers : <<c.width, c.height>> = CoverSize(variant)

\* app_minimal.py has returned a cover
C3_Witness ==
    /\ Served
    /\ variant = "minimal"
    /\ \E c \in Covers : c.width = 1792 /\ c.height = 896

----------------------------------------------------------------------------
(* C4 *)

\* C4 as stated: the response to a request is the one the same request would
\* have received right after startup, whatever was served before it.
C4_ResponseIndependentOfHistory ==
    ServedHttp => Last.resp = Last.fresh

\* status, success flag, echoed request fields and the kind of generator that
\* drew the background
Outline(resp) ==
    IF resp.status # 200 THEN [status |-> resp.status, detail |-> resp.detail]
    ELSE [status |-> 200,
          success |-> resp.json.success,
          by |-> {c.background : c \in ReturnedCovers(resp)},
          size |-> {<<c.width, c.height>> : c \in ReturnedCovers(resp)},
          echo |-> IF "metadata" \in DOMAIN resp.json /\ resp.json.metadata # None
                   THEN <<The(resp.json.metadata).client,
                          The(resp.json.metadata).style,
                          The(resp.json.metadata).title>>
                   ELSE <<>>]

\* C4, amended: the status, the success flag, the echoed request fields and
\* which generator (pipeline or programmatic) drew the background are
\* determined by the request, the library outcomes and the startup state.  In
\* FRESH app.py (with either loader) and app_lora.py a request leaves LoRA
\* state behind (current_lora, the weights loaded or fused into the pipeline),
\* and metadata.lora_used, metadata.generation_method and the LoRA weights
\* behind the image depend on the requests served before; in the other
\* services the whole response is independent of earlier requests.
C4_Amended ==
    ServedHttp =>
        /\ Outline(Last.resp) = Outline(Last.fresh)
        /\ variant \notin {"fresh", "fresh_fixed", "lora"} => Last.resp = Last.fresh

\* FRESH app.py has answered a request differently from how it would have
\* answered it right after startup
C4_Witness ==
    /\ Served
    /\ variant = "fresh"
    /\ generator # startup.generator
    /\ Succeeded(Last.resp)
    /\ Last.resp # Last.fresh

----------------------------------------------------------------------------
(* C5 *)

----------------------------------------------------------------------------
(* C6 *)

\* C6: whenever a service answers a failed generation with HTTP 500, the
\* detail contains the message of the exception that made the generation fail.
C6_DetailHasCause ==
    ServedHttp /\ Last.resp.status = 500 =>
        /\ Last.t.cause # None
        /\ Contains(Last.resp.detail, The(Last.t.cause))

----------------------------------------------------------------------------
(* C7 *)

\* no trained LoRA can be used for the request: no pipeline since startup, no
\* LoRA file for the client and style nor the universal one, or the LoRA load
\* or the pipeline raised
NoLoraUsable ==
    \/ ~startup.generator.pipeline
    \/ /\ LoraPath(Last.req.client, Last.req.style) \notin startup.generator.files
       /\ UniversalPath \notin startup.generator.files
    \/ Range(Last.t.raised) \cap {MsgLoad, MsgAltLoad, MsgPipe} # {}

\* C7: whenever no trained LoRA can be used for a request, the background is
\* drawn by the programmatic generator and the request succeeds (requests whose
\* text overlay or PNG encoding raised are left aside).
C7_FallbackWhenNoLora ==
    /\ Served
    /\ variant \in {"fresh", "fresh_fixed", "enhanced"}
    /\ NoLoraUsable
    /\ Range(Last.t.raised) \cap {MsgTitleLines, MsgEncode} = {}
    => FellBack(Last.resp, Last.t)

----------------------------------------------------------------------------
(* C8 *)

\* the services whose request model has use_trained_lora
FlagVariants == {"fresh", "fresh_fixed", "enhanced", "cpu", "lora_only"}

PipelineUntouched(t) == t.pipeline = <<>> /\ t.loads = <<>>

----------------------------------------------------------------------------
(* C9 *)

\* C9: in app_LORA_ONLY.py every response with success = true carries a cover
\* whose background the pipeline generated with the universal LoRA loaded;
\* every other request is answered with HTTP 500; the programmatic generator
\* is never used.
C9_LoraOnly ==
    Served /\ variant = "lora_only" =>
        /\ Last.t.programmatic = 0
        /\ \/ Last.resp.status = 500
           \/ /\ Succeeded(Last.resp)
              /\ ReturnedCovers(Last.resp) # {}
              /\ \A c \in ReturnedCovers(Last.resp) :
                    /\ c.background = "pipeline"
                    /\ UniversalPath \in Range(c.adapters)

\* app_LORA_ONLY.py has returned a cover
C9_Witness ==
    /\ Served
    /\ variant = "lora_only"
    /\ Succeeded(Last.resp)
    /\ Len(Last.t.loads) = 1

----------------------------------------------------------------------------
(* C10 *)

\* C10 as stated: once a LoRA load, a pipeline call or a connection attempt
\* has failed during a request, the request makes no second attempt at it.
C10_NoSecondAttempt ==
    Served =>
        /\ NoSecondAttempt(Last.t.loads)
        /\ NoSecondAttempt(Last.t.pipeline)
        /\ NoSecondAttempt(Last.t.connects)

\* C10, amended: a request calls the pipeline at most once, and the loaders of
\* the services load at most once.  Two places try again: the loader of
\* app_FIXED_LORA_LOADING.py, after a failed load, loads the universal file by
\* directory and weight_name (one further attempt), and hf_spaces_client.py,
\* after a failed connection, connects to the second form of the Space URL
\* (one further attempt).  Nothing is attempted a third time.
C10_Amended ==
    Served =>
        /\ Len(Last.t.pipeline) <= 1
        /\ variant # "fresh_fixed" => NoSecondAttempt(Last.t.loads)
        /\ variant = "fresh_fixed" =>
              /\ Len(Last.t.loads) <= 2
              /\ Len(Last.t.loads) = 2 =>
                    /\ ~Last.t.loads[1].ok
                    /\ Last.t.loads[2].path = UniversalPath
        /\ Len(Last.t.connects) <= 2
        /\ Len(Last.t.connects) = 2 =>
              /\ ~Last.t.connects[1].ok
              /\ Last.t.connects[1].url # Last.t.connects[2].url

\* the loader of app_FIXED_LORA_LOADING.py has loaded a second time after a
\* failed load
C10_Witness ==
    /\ Served
    /\ variant = "fresh_fixed"
    /\ Len(Last.t.loads) = 2
    /\ ~Last.t.loads[1].ok

----------------------------------------------------------------------------
(* C11 *)

LoraFilesFor(v, req) ==
    LET specific == <<"models/lora", "/", req.client, "_", req.style,
                      "_lora.safetensors">>
        universal == <<"models/lora", "/", "crypto_cover_styles_lora.safetensors">>
        registered == IF specific \in startup.generator.files
                      THEN specific ELSE universal
    IN  CASE v = "fresh" -> {registered}
          [] v = "fresh_fixed" -> {registered, universal}
          [] v = "lora" ->
                {<<"models/lora", "/", req.client, "_lora.safetensors">>}
          [] v \in {"cpu", "lora_only"} -> {universal}
          [] v = "gradio" ->
                {<<"models/lora", "/", "trained_crypto_lora.safetensors">>}
          [] v = "trained" ->
                {<<"models/lora/cover_styles", "/", req.client, "_", req.style,
                   "_lora.safetensors">>}
          [] v = "boxed" ->
                {<<"/Users/valorkopeny/crypto-news-curator-backend/ai-cover-generator/models/lora",
                   "/", req.client, "_lora.safetensors">>}
          [] OTHER -> {}

----------------------------------------------------------------------------
(* C12 *)

\* the layers of a cover made in the order background, text, watermark
LayersInOrder(watermark) ==
    IF watermark THEN <<"background", "text", "watermark">>
    ELSE <<"background", "text">>

\* C12: within each request the steps happen in the order background
\* generation, text overlay, watermark, encoding of the response: every cover
\* of an HTTP service has the text composited on its background and, whenever
\* a watermark was loaded at startup, the watermark composited on top of the
\* text; a background was generated before anything was composited; and the
\* PNG encoding is the last step that can raise.
C12_FixedOrder ==
    variant \in HttpVariants =>
        /\ \A c \in Covers : c.layers = LayersInOrder(startup.generator.watermark)
        /\ Served =>
              /\ Covers # {} =>
                    Last.t.pipeline # <<>> \/ Last.t.programmatic > 0
              /\ \A i \in 1..Len(Last.t.raised) :
                    Last.t.raised[i] = MsgEncode => i = Len(Last.t.raised)

\* app_lora.py, started with a watermark, has returned a cover
C12_Witness ==
    /\ Served
    /\ variant = "lora"
    /\ startup.generator.watermark
    /\ Succeeded(Last.resp)
    /\ \E c \in Covers : c.layers = <<"background", "text", "watermark">>

----------------------------------------------------------------------------
(* C13 *)

\* metadata.generation_method of a successful response
GenerationMethod(resp) == The(resp.json.metadata).generation_method

\* C13: in FRESH app.py (with either loader), whatever was served before,
\* metadata.generation_method is "sdxl_universal_lora" exactly when the
\* returned background came from the pipeline with a LoRA loaded, and
\* "programmatic_fallback" exactly when it came from the programmatic
\* generator.
C13_MethodNamesGenerator ==
    Served /\ variant \in {"fresh", "fresh_fixed"} /\ Succeeded(Last.resp) =>
        \A c \in ReturnedCovers(Last.resp) :
            /\ GenerationMethod(Last.resp) = "sdxl_universal_lora"
                  <=> (c.background = "pipeline" /\ c.adapters # <<>>)
            /\ GenerationMethod(Last.resp) = "programmatic_fallback"
                  <=> c.background = "programmatic"

----------------------------------------------------------------------------
(* C14 *)

\* the services that keep current_lora and report it
CurrentLoraVariants == {"fresh", "fresh_fixed", "cpu", "lora_only"}

\* C14: between requests, current_lora as GET /lora-status reports it is None
\* exactly when the pipeline holds no LoRA weights, and otherwise names the
\* one LoRA file loaded in the pipeline; metadata.lora_used of a successful
\* response is that value.
C14_CurrentLoraIsLoaded ==
    variant \in CurrentLoraVariants /\ inflight = <<>> =>
        LET status == lora_status(generator)
        IN  /\ status.current_lora = None <=> generator.adapters = <<>>
            /\ status.current_lora # None =>
                  generator.adapters =
                      <<status.available_loras[status.current_lora]>>
            /\ Served /\ Succeeded(Last.resp) =>
                  The(Last.resp.json.metadata).lora_used = status.current_lora

----------------------------------------------------------------------------
(* C15 *)

\* C15: at most one LoRA adapter is applied to the pipeline at any time: the
\* LoRA an earlier request loaded has been unloaded before the next one is
\* loaded, so the pipeline never holds the weights of two loads.
C15_AtMostOneAdapter == Len(generator.adapters) <= 1

----------------------------------------------------------------------------
(* C16 *)

\* C16: in TrainedLoRAIntegration, when no LoRA file exists for the requested
\* client and style, the background returned was generated by the pipeline
\* with no LoRA weights applied, whatever LoRA earlier calls had loaded.
C16_BaseModelWhenNoFile ==
    /\ Served
    /\ variant = "trained"
    /\ CoverStylePath(Last.req.client, Last.req.style) \notin generator.files
    => \A c \in Range(Last.resp.image) :
          c.background = "pipeline" /\ c.adapters = <<>>

----------------------------------------------------------------------------
(* C17 *)

\* C17: in app_fixed.py, when POST /generate answers success = true, the file
\* GET /download/<client>.png serves at the returned URL was written by the
\* generator run of that request, not left over from an earlier one.
C17_DownloadIsThisRun ==
    Served /\ variant = "fixed" /\ Succeeded(Last.resp) =>
        LET served == download_image(style_outputs, Last.req.client)
        IN  /\ Last.resp.json.image_url = Some(DownloadUrl(Last.req.client))
            /\ served.status = 200
            /\ served.file.written_for = Some(Last.req)

\* app_fixed.py, started with a cover for hedera left in style_outputs, has
\* answered a request for hedera with success = true
C17_Witness ==
    /\ Served
    /\ variant = "fixed"
    /\ LeftoverOutput \in startup.style_outputs
    /\ Last.req.client = "hedera"
    /\ Succeeded(Last.resp)

----------------------------------------------------------------------------
(* C18 *)

\* C18: in FRESH app.py (with either loader) every pipeline call of a request
\* runs with the LoRA registered for the request's <client>_<style> when one
\* is registered, and with the universal LoRA only when none is (and then
\* with it, if it is registered).
C18_RunsWithRegisteredLora ==
    Served /\ variant \in {"fresh", "fresh_fixed"} =>
        LET key == LoraKey(Last.req.client, Last.req.style)
            registered == DOMAIN startup.generator.lora_available
        IN  \A i \in 1..Len(Last.t.pipeline) :
                LET applied == Last.t.pipeline[i].adapters
                IN  /\ key \in registered =>
                          applied = <<LoraPath(Last.req.client, Last.req.style)>>
                    /\ applied = <<UniversalPath>> => key \notin registered
                    /\ key \notin registered /\ UniversalKey \in registered =>
                          applied = <<UniversalPath>>

----------------------------------------------------------------------------
(* C19 *)

\* C19: generate_cover of hf_spaces_client.py returns success = true with the
\* image exactly when the Space's function produced a cover image and predict
\* returned it, and success = false with an error message and no image in
\* every other case: a failed generation on the Space, a Space that answers
\* with its error image, a malformed result, an exception of predict, no
\* connection.
C19_SuccessIffCover ==
    Served /\ variant = "client" =>
        /\ Last.resp.success <=>
              \E i \in 1..Len(Last.t.space) : Last.t.space[i].cover # None
        /\ Last.resp.success =>
              /\ Last.resp.image_url # None
              /\ Some(The(Last.resp.image_url).image) = Last.t.space[1].cover
        /\ ~Last.resp.success =>
              /\ Last.resp.error # <<>>
              /\ Last.resp.image_url = None

\* the client has returned the cover of a Space it reached at the second URL
C19_Witness ==
    /\ Served
    /\ variant = "client"
    /\ Last.resp.success
    /\ Len(Last.t.connects) = 2
    /\ Last.t.space[1].cover # None

----------------------------------------------------------------------------
(* C20 *)

\* C20: a request with an empty title and a non-empty subtitle is rendered
\* without error: the text overlay raises nothing, and unless a library call
\* failed the request succeeds with a cover that carries the text layer.
C20_SubtitleWithoutTitle ==
    ServedHttp /\ Last.req.title = <<>> /\ Last.req.subtitle # <<>> =>
        /\ MsgTitleLines \notin Range(Last.t.raised)
        /\ Last.t.raised = <<>> =>
              /\ Succeeded(Last.resp)
              /\ \A c \in Covers : "text" \in Range(c.layers)

----------------------------------------------------------------------------
(* C21 *)

\* the covers the last call drew: those it returned and, for the client, the
\* covers the Space's function produced
DrawnCovers ==
    Covers \cup (IF Served /\ variant = "client"
                 THEN {The(Last.t.space[i].cover) :
                         i \in {j \in 1..Len(Last.t.space) :
                                    Last.t.space[j].cover # None}}
                 ELSE {})

\* the text overlays laid out for them
Overlays == {The(c.text) : c \in {d \in DrawnCovers : d.text # None}}

\* C21: whatever the title and the subtitle, the subtitle box lies within the
\* height of the canvas: its lower edge is not below the image height, with
\* a title of one line and with a title of two lines.
C21_SubtitleBoxOnCanvas ==
    \A o \in Overlays :
        o.subtitle # None => The(o.subtitle).box_y2 <= o.height

----------------------------------------------------------------------------
(* C22 *)

\* the words of the lines, first line first
RECURSIVE WordsOf(_)
WordsOf(lines) ==
    IF lines = <<>> THEN <<>> ELSE split(Head(lines)) \o WordsOf(Tail(lines))

\* len(words) > 3 in both overlay functions
WordThreshold == 3

====
